---------------------------- MODULE Spec2Model ----------------------------
(***************************************************************************)
(* Tree-walking evaluator of src/src/eval/mod.rs.                          *)
(*                                                                         *)
(* The evaluator functions eval_expr, eval_statement, eval_statements and  *)
(* eval_program are operators over the syntax tree.  A panic (the only     *)
(* error mechanism of the code) is the outcome [tag |-> "Panic", msg].     *)
(* The top-level call eval_program(statements) is also unfolded into a     *)
(* state machine that walks the loop of eval_statements statement by       *)
(* statement and then performs the unwrap step of eval_program.            *)
(***************************************************************************)
EXTENDS Integers, Sequences, FiniteSets, TLC

VARIABLES statements, overflow_checks, pc, idx, result, retval, panic, evaluated

vars == <<statements, overflow_checks, pc, idx, result, retval, panic, evaluated>>

(***************************************************************************)
(* Bounds of the explored inputs.                                          *)
(***************************************************************************)
MaxLit == 3
MaxBlockLen == 2
MaxStmts == 3
MaxNest == 3

(***************************************************************************)
(* i32, the payload of Object::Integer.                                    *)
(***************************************************************************)
MaxInt == 2147483647
MinInt == -MaxInt - 1

(***************************************************************************)
(* Object, the result value.                                               *)
(***************************************************************************)
Integer(n) == [tag |-> "Integer", val |-> n]
Boolean(b) == [tag |-> "Boolean", val |-> b]
Null == [tag |-> "Null"]
Return(o) == [tag |-> "Return", obj |-> o]
\* unwinding of the evaluation by panic!; no Object is produced
Panic(m) == [tag |-> "Panic", msg |-> m]

IsPanic(o) == o.tag = "Panic"

\* the pattern  if let &Object::Return(_) = &result
IsReturn(o) == o.tag = "Return"

\* #[derive(PartialEq)] on Object, used against Object::Boolean(true)
ObjectEq(a, b) ==
    /\ a.tag = b.tag
    /\ CASE a.tag = "Integer" -> a.val = b.val
         [] a.tag = "Boolean" -> a.val = b.val
         [] a.tag = "Return" -> a.obj = b.obj
         [] OTHER -> TRUE

(***************************************************************************)
(* The syntax tree handed over by the parser.                              *)
(***************************************************************************)
Const(n) == [kind |-> "Const", num |-> n]
BoolLit(b) == [kind |-> "Boolean", val |-> b]
Prefix(p, e) == [kind |-> "Prefix", prefix |-> p, value |-> e]
Infix(l, op, r) == [kind |-> "Infix", left |-> l, operator |-> op, right |-> r]
If(c, t, e) == [kind |-> "If", condition |-> c, consequence |-> t, alternative |-> e]
\* an expression variant eval_expr has no arm for
Ident == [kind |-> "Ident", name |-> "a"]

Expression(e) == [kind |-> "Expression", expr |-> e]
ReturnStmt(e) == [kind |-> "Return", value |-> e]
\* a statement variant eval_statement has no arm for
LetStmt == [kind |-> "Let", name |-> "a", value |-> Const(1)]

Operators == {"Plus", "Minus", "Multiply", "Divide", "LessThan", "GreaterThan",
              "Equals", "NotEquals"}

(***************************************************************************)
(* i32 arithmetic.  Every intermediate value stays inside MinInt..MaxInt.  *)
(***************************************************************************)
NegOverflows(v) == v = MinInt

AddOverflows(a, b) ==
    \/ b > 0 /\ a > MaxInt - b
    \/ b < 0 /\ a < MinInt - b

SubOverflows(a, b) ==
    \/ b < 0 /\ a > MaxInt + b
    \/ b > 0 /\ a < MinInt + b

MulOverflows(a, b) ==
    IF a = 0 \/ b = 0 THEN FALSE
    ELSE IF (a > 0) = (b > 0)
         THEN IF a = MinInt \/ b = MinInt THEN TRUE
              ELSE LET aa == IF a < 0 THEN -a ELSE a
                       bb == IF b < 0 THEN -b ELSE b
                   IN aa > MaxInt \div bb
         ELSE LET neg == IF a < 0 THEN a ELSE b
                  pos == IF a < 0 THEN b ELSE a
              IN neg < (MinInt + pos - 1) \div pos

DivOverflows(a, b) == a = MinInt /\ b = -1

wrapping_neg(v) == IF v = MinInt THEN MinInt ELSE -v

wrapping_add(a, b) ==
    IF b > 0 /\ a > MaxInt - b THEN (a - MaxInt - 1) + (b - MaxInt - 1)
    ELSE IF b < 0 /\ a < MinInt - b THEN ((a + MaxInt) + 1) + ((b + MaxInt) + 1)
    ELSE a + b

wrapping_sub(a, b) ==
    IF b = MinInt
    THEN IF a >= 0 THEN a + MinInt ELSE (a + MaxInt) + 1
    ELSE wrapping_add(a, -b)

\* byte i of the two's-complement representation of a
Byte(a, i) == (a \div (256 ^ i)) % 256

\* the low 32 bits of the product, by schoolbook multiplication on bytes
wrapping_mul(a, b) ==
    LET c0 == Byte(a, 0) * Byte(b, 0)
        c1 == Byte(a, 0) * Byte(b, 1) + Byte(a, 1) * Byte(b, 0) + (c0 \div 256)
        c2 == Byte(a, 0) * Byte(b, 2) + Byte(a, 1) * Byte(b, 1) + Byte(a, 2) * Byte(b, 0)
                 + (c1 \div 256)
        c3 == Byte(a, 0) * Byte(b, 3) + Byte(a, 1) * Byte(b, 2) + Byte(a, 2) * Byte(b, 1)
                 + Byte(a, 3) * Byte(b, 0) + (c2 \div 256)
        top == c3 % 256
    IN (IF top >= 128 THEN top - 256 ELSE top) * (256 ^ 3)
          + (c2 % 256) * (256 ^ 2) + (c1 % 256) * 256 + (c0 % 256)

\* the quotient of / on i32: rounded toward zero
truncating_div(a, b) ==
    IF a = MinInt
    THEN IF b > 0 THEN -((-(a + b)) \div b) - 1
         ELSE IF b = MinInt THEN 1
         ELSE ((-(a - b)) \div (-b)) + 1
    ELSE IF b = MinInt THEN 0
    ELSE LET aa == IF a < 0 THEN -a ELSE a
             bb == IF b < 0 THEN -b ELSE b
             q == aa \div bb
         IN IF (a < 0) = (b < 0) THEN q ELSE -q


(***************************************************************************)
(* eval_expr, one operator per match arm on already evaluated operands.    *)
(* overflow_checks is the build's overflow-checks setting: with it an      *)
(* overflowing -, +, * panics, without it the result wraps; / panics on    *)
(* a zero divisor and on MinInt / -1 in every build.                       *)
(***************************************************************************)
eval_bang(o) ==
    IF o.tag = "Boolean" THEN Boolean(~o.val)
    ELSE Panic("! operator only valid for boolean type")

\* variant: the negation yields the magnitude
eval_negate_abs(o) ==
    IF o.tag = "Integer"
    THEN IF NegOverflows(o.val) /\ overflow_checks
         THEN Panic("attempt to negate with overflow")
         ELSE Integer(IF o.val < 0 THEN wrapping_neg(o.val) ELSE o.val)
    ELSE Panic("minus operator only valid for integer type")

eval_negate(o) ==
    IF o.tag = "Integer"
    THEN IF NegOverflows(o.val) /\ overflow_checks
         THEN Panic("attempt to negate with overflow")
         ELSE Integer(wrapping_neg(o.val))
    ELSE Panic("minus operator only valid for integer type")

eval_plus(l, r) ==
    IF l.tag = "Integer" /\ r.tag = "Integer"
    THEN IF AddOverflows(l.val, r.val) /\ overflow_checks
         THEN Panic("attempt to add with overflow")
         ELSE Integer(wrapping_add(l.val, r.val))
    ELSE Panic("plus operator only valid on integer types")

eval_minus(l, r) ==
    IF l.tag = "Integer" /\ r.tag = "Integer"
    THEN IF SubOverflows(l.val, r.val) /\ overflow_checks
         THEN Panic("attempt to subtract with overflow")
         ELSE Integer(wrapping_sub(l.val, r.val))
    ELSE Panic("minus operator only valid on integer types")

eval_multiply(l, r) ==
    IF l.tag = "Integer" /\ r.tag = "Integer"
    THEN IF MulOverflows(l.val, r.val) /\ overflow_checks
         THEN Panic("attempt to multiply with overflow")
         ELSE Integer(wrapping_mul(l.val, r.val))
    ELSE Panic("multiply operator only valid on integer types")

\* variant: the quotient is rounded toward minus infinity
eval_divide_floor(l, r) ==
    IF l.tag = "Integer" /\ r.tag = "Integer"
    THEN IF r.val = 0 THEN Panic("attempt to divide by zero")
         ELSE IF DivOverflows(l.val, r.val) THEN Panic("attempt to divide with overflow")
         ELSE LET q == truncating_div(l.val, r.val)
              IN Integer(IF (l.val < 0) # (r.val < 0) /\ q * r.val # l.val THEN q - 1 ELSE q)
    ELSE Panic("divide operator only valid on integer types")

eval_divide(l, r) ==
    IF l.tag = "Integer" /\ r.tag = "Integer"
    THEN IF r.val = 0 THEN Panic("attempt to divide by zero")
         ELSE IF DivOverflows(l.val, r.val) THEN Panic("attempt to divide with overflow")
         ELSE Integer(truncating_div(l.val, r.val))
    ELSE Panic("divide operator only valid on integer types")

eval_less_than(l, r) ==
    IF l.tag = "Integer" /\ r.tag = "Integer" THEN Boolean(l.val < r.val)
    ELSE Panic("less than operator only valid on integer types")

eval_greater_than(l, r) ==
    IF l.tag = "Integer" /\ r.tag = "Integer" THEN Boolean(l.val > r.val)
    ELSE Panic("greater than operator only valid on integer types")

\* variant: operands of different variants compare unequal
eval_equals_lenient(l, r) ==
    IF l.tag = "Integer" /\ r.tag = "Integer" THEN Boolean(l.val = r.val)
    ELSE IF l.tag = "Boolean" /\ r.tag = "Boolean" THEN Boolean(l.val = r.val)
    ELSE Boolean(FALSE)

eval_equals(l, r) ==
    IF l.tag = "Integer" /\ r.tag = "Integer" THEN Boolean(l.val = r.val)
    ELSE IF l.tag = "Boolean" /\ r.tag = "Boolean" THEN Boolean(l.val = r.val)
    ELSE Panic("equals operator used on invalid types")

eval_not_equals(l, r) ==
    IF l.tag = "Integer" /\ r.tag = "Integer" THEN Boolean(l.val # r.val)
    ELSE IF l.tag = "Boolean" /\ r.tag = "Boolean" THEN Boolean(l.val # r.val)
    ELSE Panic("not equals operator used on invalid types")

eval_infix(operator, l, r) ==
    CASE operator = "Plus" -> eval_plus(l, r)
      [] operator = "Minus" -> eval_minus(l, r)
      [] operator = "Multiply" -> eval_multiply(l, r)
      [] operator = "Divide" -> eval_divide(l, r)
      [] operator = "LessThan" -> eval_less_than(l, r)
      [] operator = "GreaterThan" -> eval_greater_than(l, r)
      [] operator = "Equals" -> eval_equals(l, r)
      [] operator = "NotEquals" -> eval_not_equals(l, r)

\* variant: truthiness, every value but Boolean(false) and Null selects the consequence
selects_consequence_truthy(o) ==
    ~(o.tag = "Null" \/ (o.tag = "Boolean" /\ o.val = FALSE))

\* the test of the conditional:  eval_expr(*condition) == Object::Boolean(true)
selects_consequence(o) == ObjectEq(o, Boolean(TRUE))

(***************************************************************************)
(* The recursive evaluator.  A panic in a sub-evaluation unwinds through   *)
(* every caller; the operands of an infix are evaluated left, then right,  *)
(* and only then matched.                                                  *)
(***************************************************************************)
RECURSIVE eval_expr(_), eval_if(_, _, _), eval_statement(_),
          eval_statements_from(_, _, _), eval_statements(_)

\* variant: both branches are evaluated before one is selected
eval_if_eager(condition, consequence, alternative) ==
    LET c == eval_expr(condition)
        t == eval_statements(consequence)
        e == eval_statements(alternative)
    IN IF IsPanic(c) THEN c
       ELSE IF IsPanic(t) THEN t
       ELSE IF IsPanic(e) THEN e
       ELSE IF selects_consequence(c) THEN t
       ELSE e

eval_if(condition, consequence, alternative) ==
    LET c == eval_expr(condition)
    IN IF IsPanic(c) THEN c
       ELSE IF selects_consequence(c) THEN eval_statements(consequence)
       ELSE eval_statements(alternative)

eval_expr(expression) ==
    CASE expression.kind = "Const" -> Integer(expression.num)
      [] expression.kind = "Boolean" -> Boolean(expression.val)
      [] expression.kind = "Prefix" ->
            LET o == eval_expr(expression.value)
            IN IF IsPanic(o) THEN o
               ELSE IF expression.prefix = "Bang" THEN eval_bang(o)
               ELSE eval_negate(o)
      [] expression.kind = "Infix" ->
            LET l == eval_expr(expression.left)
            IN IF IsPanic(l) THEN l
               ELSE LET r == eval_expr(expression.right)
                    IN IF IsPanic(r) THEN r
                       ELSE eval_infix(expression.operator, l, r)
      [] expression.kind = "If" ->
            eval_if(expression.condition, expression.consequence, expression.alternative)
      [] OTHER -> Panic("eval expr not implemented for this type")

eval_statement(statement) ==
    CASE statement.kind = "Expression" -> eval_expr(statement.expr)
      [] statement.kind = "Return" ->
            LET o == eval_expr(statement.value)
            IN IF IsPanic(o) THEN o ELSE Return(o)
      [] OTHER -> Panic("unsupported statement type")

\* the for loop of eval_statements, entered at position i with the running result
eval_statements_from(stmts, i, res) ==
    IF i > Len(stmts) THEN res
    ELSE LET r == eval_statement(stmts[i])
         IN IF IsPanic(r) THEN r
            ELSE IF IsReturn(r) THEN r
            ELSE eval_statements_from(stmts, i + 1, r)

eval_statements(stmts) == eval_statements_from(stmts, 1, Null)

\* variant: the Return tag is left on the result
unwrap_return_keep(res) == res

unwrap_return(res) == IF IsReturn(res) THEN res.obj ELSE res

eval_program(stmts) ==
    LET res == eval_statements(stmts)
    IN IF IsPanic(res) THEN res ELSE unwrap_return(res)


(***************************************************************************)
(* The programs explored.                                                  *)
(***************************************************************************)
BoundedSeq(S, n) == UNION {[1..k -> S] : k \in 0..n}

IntLits == (-MaxLit..MaxLit) \cup {MinInt, MinInt + 1, MaxInt}

\* a conditional that evaluates to Null
NullExpr == If(BoolLit(FALSE), <<>>, <<>>)
\* a conditional that evaluates to the Return-tagged value of e
ReturnedExpr(e) == If(BoolLit(TRUE), <<ReturnStmt(e)>>, <<>>)

Atoms == {Const(n) : n \in IntLits} \cup {BoolLit(b) : b \in BOOLEAN}
            \cup {Ident, NullExpr, ReturnedExpr(BoolLit(TRUE)), ReturnedExpr(Const(1))}
Unary == {Prefix(p, a) : p \in {"Bang", "Minus"}, a \in Atoms}
Binary == {Infix(a, op, b) : a \in Atoms, op \in Operators, b \in Atoms}
DoubleNeg == {Prefix("Minus", Prefix("Minus", e)) : e \in Atoms \cup Binary}
ArithExprs == Atoms \cup Unary \cup Binary \cup DoubleNeg
TypeErrorStmt == Expression(Prefix("Bang", Const(1)))
DivZeroStmt == Expression(Infix(Const(1), "Divide", Const(0)))
DivOverflowStmt == Expression(Infix(Const(MinInt), "Divide", Const(-1)))
LeafStmts == {Expression(Const(7)), ReturnStmt(Const(5)), TypeErrorStmt, LetStmt}
Blocks == BoundedSeq(LeafStmts, MaxBlockLen)
Conds == {BoolLit(TRUE), BoolLit(FALSE), Const(1), NullExpr, ReturnedExpr(BoolLit(TRUE)),
          Ident, Infix(Const(1), "LessThan", Const(2))}
SeqStmts == LeafStmts \cup
            {DivZeroStmt, DivOverflowStmt, Expression(BoolLit(TRUE)),
             Expression(ReturnedExpr(Const(5))),
             Expression(If(BoolLit(FALSE), <<Expression(Const(7))>>, <<>>)),
             ReturnStmt(ReturnedExpr(Const(5)))}
SeqPrograms == BoundedSeq(SeqStmts, MaxStmts)

\* a return under d conditionals, each the first statement of its sequence
NestConds == {BoolLit(TRUE), Infix(Const(10), "GreaterThan", Const(1))}
NestTrailing == {<<>>, <<ReturnStmt(Const(1))>>, <<TypeErrorStmt>>}
RECURSIVE NestBlocks(_)
NestBlocks(d) ==
    IF d = 0 THEN {<<ReturnStmt(Const(10))>> \o t : t \in NestTrailing}
    ELSE {<<Expression(If(c, b, <<>>))>> \o t :
             c \in NestConds, b \in NestBlocks(d - 1), t \in NestTrailing}
NestPrograms == UNION {NestBlocks(d) : d \in 0..MaxNest}

StmtKinds == {"Expression", "Return"}
Stmt(k, e) == IF k = "Expression" THEN Expression(e) ELSE ReturnStmt(e)

\* one arithmetic statement, one conditional statement, a flat sequence, or a nested return
IsProgram(s) ==
    \/ \E k \in StmtKinds, e \in ArithExprs : s = <<Stmt(k, e)>>
    \/ \E k \in StmtKinds, c \in Conds, t \in Blocks, a \in Blocks : s = <<Stmt(k, If(c, t, a))>>
    \/ s \in SeqPrograms
    \/ s \in NestPrograms

(***************************************************************************)
(* eval_program(statements), unfolded: the loop of eval_statements over    *)
(* the top-level list, then the unwrap of eval_program.                    *)
(*   pc        "loop" in the for loop, "unwrap" eval_statements returned,  *)
(*             "done" eval_program returned, "panicked" unwound            *)
(*   idx       position of the loop in statements                          *)
(*   result    the running result of eval_statements                       *)
(*   retval    the value eval_program returned                             *)
(*   panic     the message of the panic                                    *)
(*   evaluated the positions of statements passed to eval_statement        *)
(***************************************************************************)
NoValue == [tag |-> "NoValue"]
NoPanic == ""

Init ==
    /\ IsProgram(statements)
    /\ overflow_checks \in BOOLEAN
    /\ pc = "loop"
    /\ idx = 1
    /\ result = Null
    /\ retval = NoValue
    /\ panic = NoPanic
    /\ evaluated = <<>>

\* variant: the loop does not return at a Return-tagged result
EvalStatementsIter_NoStop ==
    /\ pc = "loop"
    /\ idx <= Len(statements)
    /\ evaluated' = Append(evaluated, idx)
    /\ LET r == eval_statement(statements[idx])
       IN IF IsPanic(r)
          THEN /\ pc' = "panicked"
               /\ panic' = r.msg
               /\ UNCHANGED <<idx, result>>
          ELSE /\ result' = r
               /\ panic' = panic
               /\ pc' = "loop"
               /\ idx' = idx + 1
    /\ UNCHANGED <<statements, overflow_checks, retval>>

\* variant: a Null result does not overwrite the running result
EvalStatementsIter_KeepOnNull ==
    /\ pc = "loop"
    /\ idx <= Len(statements)
    /\ evaluated' = Append(evaluated, idx)
    /\ LET r == eval_statement(statements[idx])
       IN IF IsPanic(r)
          THEN /\ pc' = "panicked"
               /\ panic' = r.msg
               /\ UNCHANGED <<idx, result>>
          ELSE /\ result' = (IF r = Null THEN result ELSE r)
               /\ panic' = panic
               /\ IF IsReturn(r)
                  THEN pc' = "unwrap" /\ idx' = idx
                  ELSE pc' = "loop" /\ idx' = idx + 1
    /\ UNCHANGED <<statements, overflow_checks, retval>>

\* one iteration of  for statement in statements { ... }
EvalStatementsIter ==
    /\ pc = "loop"
    /\ idx <= Len(statements)
    /\ evaluated' = Append(evaluated, idx)
    /\ LET r == eval_statement(statements[idx])
       IN IF IsPanic(r)
          THEN /\ pc' = "panicked"
               /\ panic' = r.msg
               /\ UNCHANGED <<idx, result>>
          ELSE /\ result' = r
               /\ panic' = panic
               /\ IF IsReturn(r)
                  THEN pc' = "unwrap" /\ idx' = idx
                  ELSE pc' = "loop" /\ idx' = idx + 1
    /\ UNCHANGED <<statements, overflow_checks, retval>>

\* the list is exhausted: eval_statements returns result
EvalStatementsEnd ==
    /\ pc = "loop"
    /\ idx > Len(statements)
    /\ pc' = "unwrap"
    /\ UNCHANGED <<statements, overflow_checks, idx, result, retval, panic, evaluated>>

\* eval_program strips the Return tag of the sequence's result
EvalProgramUnwrap ==
    /\ pc = "unwrap"
    /\ retval' = unwrap_return(result)
    /\ pc' = "done"
    /\ UNCHANGED <<statements, overflow_checks, idx, result, panic, evaluated>>

Next == EvalStatementsIter \/ EvalStatementsEnd \/ EvalProgramUnwrap

Spec == Init /\ [][Next]_vars

TypeOK ==
    /\ pc \in {"loop", "unwrap", "done", "panicked"}
    /\ idx \in 1..(Len(statements) + 1)
    /\ (pc = "done") = (retval # NoValue)
    /\ (pc = "panicked") = (panic # NoPanic)

\* the unfolded run and the recursive evaluator agree
Agree ==
    /\ pc = "done" => retval = eval_program(statements)
    /\ pc = "panicked" => eval_program(statements) = Panic(panic)


(***************************************************************************)
(* Vocabulary of the properties.                                           *)
(***************************************************************************)
Positions(n) == [k \in 1..n |-> k]

\* the outcome of the latest call of eval_statement by the loop
LastOutcome == IF pc = "panicked" THEN Panic(panic) ELSE result
LastStmt == statements[evaluated[Len(evaluated)]]

\* statement i of s is the first to yield a Return-tagged value, nothing before it panics
FirstReturn(s, i) ==
    /\ IsReturn(eval_statement(s[i]))
    /\ \A j \in 1..(i - 1) :
          ~IsReturn(eval_statement(s[j])) /\ ~IsPanic(eval_statement(s[j]))

\* statement i of s is the first to panic, nothing before it yields a Return-tagged value
FirstPanic(s, i) ==
    /\ IsPanic(eval_statement(s[i]))
    /\ \A j \in 1..(i - 1) :
          ~IsReturn(eval_statement(s[j])) /\ ~IsPanic(eval_statement(s[j]))

\* the conditionals that are the expression of a top-level statement
TopConditionals ==
    {statements[i].expr : i \in {k \in 1..Len(statements) :
          statements[k].kind = "Expression" /\ statements[k].expr.kind = "If"}}
    \cup
    {statements[i].value : i \in {k \in 1..Len(statements) :
          statements[k].kind = "Return" /\ statements[k].value.kind = "If"}}

TopBlocks == {e.consequence : e \in TopConditionals} \cup {e.alternative : e \in TopConditionals}

\* C1: the value eval_program returns is an Integer, a Boolean or Null, never Return-tagged
C1_NoReturnEscapes ==
    pc = "done" => retval.tag \in {"Integer", "Boolean", "Null"}

\* C2: the payload of a Return-tagged result is never itself Return-tagged
C2_ReturnNeverNests ==
    IsReturn(result) => ~IsReturn(result.obj)

\* C3: statements are evaluated in list order; at the first Return-tagged result the scan
\* stops, no later statement is evaluated (a later statement that would panic does not
\* abort the program) and the sequence's result is that Return-tagged value, not unwrapped
C3_ReturnStopsScan ==
    /\ \A i \in 1..Len(statements) :
          FirstReturn(statements, i) =>
             /\ pc # "panicked"
             /\ Len(evaluated) <= i
             /\ evaluated = Positions(Len(evaluated))
             /\ pc \in {"unwrap", "done"} =>
                   /\ evaluated = Positions(i)
                   /\ result = eval_statement(statements[i])
                   /\ IsReturn(result)
    /\ \A b \in TopBlocks \cup {statements} : \A i \in 1..Len(b) :
          FirstReturn(b, i) => eval_statements(b) = eval_statement(b[i])

C3_Witness ==
    /\ pc = "done"
    /\ IsReturn(result)
    /\ \E j \in (idx + 1)..Len(statements) : IsPanic(eval_statement(statements[j]))

\* C4: a return under conditionals nested to any depth short-circuits every enclosing
\* sequence; eval_program yields the returned value unwrapped once, whatever follows
\* the conditional in an enclosing sequence
C4_NestedReturn ==
    statements \in NestPrograms =>
       /\ pc # "panicked"
       /\ pc \in {"unwrap", "done"} => result = Return(Integer(10))
       /\ pc = "done" => retval = Integer(10)

C4_Witness ==
    /\ pc = "done"
    /\ statements \in NestBlocks(MaxNest)
    /\ Len(statements) > 1
    /\ retval = Integer(10)


\* the value the conditional e has when its condition evaluated to c
Selected(e, c) ==
    IF c.tag = "Boolean" /\ c.val = TRUE
    THEN eval_statements(e.consequence)
    ELSE eval_statements(e.alternative)

\* C5: the consequence is evaluated iff the condition evaluates to exactly Boolean(true);
\* Boolean(false), an Integer, Null or a Return-tagged value selects the alternative
\* without a type error; only the selected branch is evaluated; an empty selected
\* alternative yields Null
C5_ConditionalSelection ==
    /\ \A e \in TopConditionals :
          LET c == eval_expr(e.condition)
          IN ~IsPanic(c) =>
                /\ eval_expr(e) = Selected(e, c)
                /\ (~(c.tag = "Boolean" /\ c.val = TRUE) /\ e.alternative = <<>>)
                      => eval_expr(e) = Null
    /\ (Len(evaluated) > 0 /\ LastStmt.kind = "Expression" /\ LastStmt.expr.kind = "If") =>
          LET c == eval_expr(LastStmt.expr.condition)
          IN ~IsPanic(c) => LastOutcome = Selected(LastStmt.expr, c)

C5_Witness ==
    /\ pc = "done"
    /\ Len(statements) = 1
    /\ statements[1].kind = "Expression"
    /\ statements[1].expr.kind = "If"
    /\ eval_expr(statements[1].expr.condition) = Return(Boolean(TRUE))
    /\ IsPanic(eval_statements(statements[1].expr.consequence))
    /\ statements[1].expr.alternative = <<>>
    /\ retval = Null

\* C6: == and != evaluate both operands; on two Integers or two Booleans the result is
\* Boolean(l = r), respectively Boolean(l # r); every other pair of operand results
\* is a fatal type error, never a Boolean
C6_EqualityTyping ==
    (/\ Len(evaluated) > 0
     /\ LastStmt.kind = "Expression"
     /\ LastStmt.expr.kind = "Infix"
     /\ LastStmt.expr.operator \in {"Equals", "NotEquals"}) =>
       LET l == eval_expr(LastStmt.expr.left)
           r == eval_expr(LastStmt.expr.right)
           eq == LastStmt.expr.operator = "Equals"
       IN IF IsPanic(l) THEN LastOutcome = l
          ELSE IF IsPanic(r) THEN LastOutcome = r
          ELSE IF l.tag = r.tag /\ l.tag \in {"Integer", "Boolean"}
               THEN LastOutcome = Boolean(IF eq THEN l.val = r.val ELSE l.val # r.val)
               ELSE /\ pc = "panicked"
                    /\ panic = (IF eq THEN "equals operator used on invalid types"
                                ELSE "not equals operator used on invalid types")

C6_Witness ==
    /\ pc = "panicked"
    /\ Len(statements) = 1
    /\ statements[1].kind = "Expression"
    /\ statements[1].expr.kind = "Infix"
    /\ statements[1].expr.operator = "Equals"
    /\ eval_expr(statements[1].expr.left) = Integer(1)
    /\ eval_expr(statements[1].expr.right) = Boolean(TRUE)

\* C10: when no statement yields a Return-tagged result, the sequence's result is the
\* result of its last statement only, each result overwriting the running result;
\* an empty sequence yields Null
C10_LastStatementWins ==
    /\ (pc \in {"unwrap", "done"} /\ ~IsReturn(result)) =>
          /\ evaluated = Positions(Len(statements))
          /\ result = (IF statements = <<>> THEN Null
                       ELSE eval_statement(statements[Len(statements)]))
    /\ (pc = "loop" /\ Len(evaluated) > 0) => result = eval_statement(LastStmt)
    /\ \A b \in TopBlocks \cup {statements} :
          (\A i \in 1..Len(b) : ~IsReturn(eval_statement(b[i])) /\ ~IsPanic(eval_statement(b[i])))
             => eval_statements(b) = (IF b = <<>> THEN Null ELSE eval_statement(b[Len(b)]))

C10_Witness ==
    /\ pc = "done"
    /\ Len(statements) >= 2
    /\ eval_statement(statements[Len(statements) - 1]) = Integer(7)
    /\ statements[Len(statements)].kind = "Expression"
    /\ statements[Len(statements)].expr.kind = "If"
    /\ retval = Null


\* q is a divided by b, rounded toward zero: a = q * b + rem, |rem| < |b|, rem has the sign of a
IsTruncQuot(a, b, q) ==
    /\ ~MulOverflows(q, b)
    /\ ~SubOverflows(a, q * b)
    /\ LET rem == a - q * b
       IN /\ rem = 0 \/ (rem < 0) = (a < 0)
          /\ IF b > 0 THEN -b < rem /\ rem < b ELSE b < rem /\ b < -rem

\* the latest statement evaluated is the expression statement  l / r  on two Integers
DivisionEvaluated ==
    /\ Len(evaluated) > 0
    /\ LastStmt.kind = "Expression"
    /\ LastStmt.expr.kind = "Infix"
    /\ LastStmt.expr.operator = "Divide"
    /\ eval_expr(LastStmt.expr.left).tag = "Integer"
    /\ eval_expr(LastStmt.expr.right).tag = "Integer"

Dividend == eval_expr(LastStmt.expr.left).val
Divisor == eval_expr(LastStmt.expr.right).val

\* C8 as stated: for all i32 a and b # 0, a / b yields Integer(q), q the quotient rounded
\* toward zero; for b = 0 evaluation is fatal and yields no value
C8_DivisionTruncates ==
    DivisionEvaluated =>
       IF Divisor = 0
       THEN pc = "panicked" /\ retval = NoValue
       ELSE LastOutcome.tag = "Integer" /\ IsTruncQuot(Dividend, Divisor, LastOutcome.val)

\* C8 amended: for all i32 a and b with b # 0, except a = MinInt with b = -1, a / b yields
\* Integer(q), q the quotient rounded toward zero; for b = 0, and for MinInt / -1 whose
\* quotient is not an i32, evaluation is fatal and yields no value
C8_DivisionTruncatesInRange ==
    DivisionEvaluated =>
       IF Divisor = 0
       THEN pc = "panicked" /\ retval = NoValue /\ panic = "attempt to divide by zero"
       ELSE IF Dividend = MinInt /\ Divisor = -1
       THEN pc = "panicked" /\ retval = NoValue /\ panic = "attempt to divide with overflow"
       ELSE LastOutcome.tag = "Integer" /\ IsTruncQuot(Dividend, Divisor, LastOutcome.val)

C8_Witness ==
    /\ pc = "done"
    /\ DivisionEvaluated
    /\ Dividend = -3
    /\ Divisor = 2
    /\ retval = Integer(-1)

\* the program is the single statement  -(-e);  with e evaluating to an Integer
DoubleNegation ==
    /\ Len(statements) = 1
    /\ statements[1].kind = "Expression"
    /\ statements[1].expr \in DoubleNeg
    /\ eval_expr(statements[1].expr.value.value).tag = "Integer"

Negated == eval_expr(statements[1].expr.value.value)

\* C9 as stated: for every e evaluating to Integer(n), n any i32, -(-e) yields Integer(n)
C9_NegateInvolutive ==
    (DoubleNegation /\ pc \in {"done", "panicked"}) =>
       pc = "done" /\ retval = Negated

\* C9 amended: for every e evaluating to Integer(n), -(-e) yields Integer(n) for every i32 n
\* other than MinInt; for n = MinInt the negation overflows: a build with overflow checks
\* panics, a build without wraps and yields Integer(n)
C9_NegateInvolutiveInRange ==
    (DoubleNegation /\ pc \in {"done", "panicked"}) =>
       IF Negated.val = MinInt /\ overflow_checks
       THEN pc = "panicked" /\ panic = "attempt to negate with overflow"
       ELSE pc = "done" /\ retval = Negated

C9_Witness ==
    /\ DoubleNegation
    /\ pc = "done"
    /\ statements[1].expr.value.value.kind = "Infix"
    /\ retval = Integer(-6)

TypeMismatchErrors ==
    {"! operator only valid for boolean type",
     "minus operator only valid for integer type",
     "plus operator only valid on integer types",
     "minus operator only valid on integer types",
     "multiply operator only valid on integer types",
     "divide operator only valid on integer types",
     "less than operator only valid on integer types",
     "greater than operator only valid on integer types",
     "equals operator used on invalid types",
     "not equals operator used on invalid types"}

\* operator/type mismatch, unimplemented expression, unsupported statement, division by zero
ListedErrors ==
    TypeMismatchErrors \cup {"eval expr not implemented for this type",
                             "unsupported statement type",
                             "attempt to divide by zero"}

OverflowErrors ==
    {"attempt to negate with overflow", "attempt to add with overflow",
     "attempt to subtract with overflow", "attempt to multiply with overflow",
     "attempt to divide with overflow"}

\* eval_program aborts exactly when a statement the scan reaches panics, with one of causes;
\* nothing is evaluated after the abort; a panicking node in a branch that is not selected
\* or behind an executed return does not abort
FatalErrors(causes) ==
    /\ \A i \in 1..Len(statements) :
          FirstPanic(statements, i) =>
             /\ pc \notin {"unwrap", "done"}
             /\ Len(evaluated) <= i
             /\ pc = "panicked" =>
                   /\ evaluated = Positions(i)
                   /\ Panic(panic) = eval_statement(statements[i])
                   /\ retval = NoValue
    /\ pc = "panicked" =>
          /\ \E i \in 1..Len(statements) : FirstPanic(statements, i)
          /\ panic \in causes
          /\ ~ENABLED Next
    /\ (\A i \in 1..Len(statements) : ~FirstPanic(statements, i)) =>
          ~IsPanic(eval_program(statements))
    /\ \A e \in TopConditionals :
          LET c == eval_expr(e.condition)
          IN IsPanic(eval_expr(e)) = (IF IsPanic(c) THEN TRUE ELSE IsPanic(Selected(e, c)))
    /\ \A b \in TopBlocks :
          IsPanic(eval_statements(b)) = (\E i \in 1..Len(b) : FirstPanic(b, i))

\* C7 as stated: the abort happens exactly when a node reached by the evaluation order raises
\* an operator/type mismatch, an unimplemented expression variant, an unsupported statement
\* variant or a division by zero; nothing is evaluated after it; nodes not reached never abort
C7_FatalErrorsListed == FatalErrors(ListedErrors)

\* C7 amended: as stated, with integer overflow as a further cause of the abort (MinInt / -1
\* in every build; negation, addition, subtraction, multiplication under overflow checks)
C7_FatalErrorsWithOverflow == FatalErrors(ListedErrors \cup OverflowErrors)

C7_Witness ==
    /\ pc = "panicked"
    /\ panic \in OverflowErrors
    /\ Len(evaluated) > 1
    /\ Len(evaluated) < Len(statements)

=============================================================================
